---- MODULE Spec2Model ----
(***************************************************************************)
(* DeepView MCP server (src/deepview_mcp/server.py, cli.py).               *)
(*                                                                         *)
(* The model covers the HTTP application built by create_http_server: the  *)
(* JSON-RPC endpoint POST /deepview-mcp/mcp (mcp_endpoint), the REST       *)
(* aliases GET /{project_name} and GET /codebase/{project_name}, the       *)
(* discovery document GET /.well-known/mcp.json, the bearer-token helpers, *)
(* the corpus loaders, the process-wide codebase_content slot, and the     *)
(* startup of the process (the try block of cli.main).                     *)
(*                                                                         *)
(* Paths are sequences of components ("/" as first component marks an      *)
(* absolute path); the file system maps normalised paths to file text.     *)
(* Each in-flight request owns one slot; a handler is a chain of steps     *)
(* ordered by pc, and trace records what the handler did, in order.        *)
(***************************************************************************)
EXTENDS Integers, Sequences, FiniteSets, TLC

\* ---------------------------------------------------------------------
\* Bounds
\* ---------------------------------------------------------------------
MaxInFlight == 2        \* request slots of the serving runtime
MaxId == 1              \* JSON-RPC ids are 1..MaxId, or absent

Reqs == 1..MaxInFlight

\* ---------------------------------------------------------------------
\* Values
\* ---------------------------------------------------------------------
None == "<None>"                    \* Python None for string-valued items
NoId == <<>>                        \* body.get("id") when the key is absent
Ids == {NoId} \cup {<<n>> : n \in 1..MaxId}
Absent == "<absent>"                \* no file at a path

Range(s) == {s[i] : i \in 1..Len(s)}

\* `not x` for a str-or-None value
Falsy(x) == x \in {None, ""}

\* ---------------------------------------------------------------------
\* Paths and the file system
\* ---------------------------------------------------------------------
AppCodebase == <<"/", "app", "codebase">>
DotCodebase == <<".", "codebase">>
BareCodebase == <<"codebase">>

RECURSIVE DropDots(_)
DropDots(p) ==
    IF p = <<>> THEN <<>>
    ELSE IF Head(p) = "." THEN DropDots(Tail(p))
    ELSE <<Head(p)>> \o DropDots(Tail(p))

\* f"{prefix}/{path}": a leading "/" of path collapses into the separator
JoinPath(prefix, path) ==
    IF path # <<>> /\ Head(path) = "/" THEN prefix \o Tail(path)
    ELSE prefix \o path

\* What the operating system resolves a path to (cwd-relative, "." dropped)
Normalize(p) == DropDots(p)

\* os.path.basename(os.path.dirname(p))
DirName(p) == IF Len(p) <= 1 THEN <<>> ELSE SubSeq(p, 1, Len(p) - 1)
BaseName(p) == IF p = <<>> \/ p[Len(p)] = "/" THEN "" ELSE p[Len(p)]
\* Variant: the project is taken from the top of the path
ProjectOf_FirstComponent(codebase_file) ==
    IF Len(codebase_file) <= 1 THEN "" ELSE Head(codebase_file)

ProjectOf(codebase_file) == BaseName(DirName(codebase_file))

PathExists(files, p) ==
    /\ Normalize(p) \in DOMAIN files
    /\ files[Normalize(p)] # Absent

ReadFile(files, p) == files[Normalize(p)]

\* ---------------------------------------------------------------------
\* Corpus loaders
\* ---------------------------------------------------------------------
\* possible_paths of load_codebase_from_file
possible_paths(file_path) ==
    << file_path,
       JoinPath(<<"/", "app">>, file_path),
       JoinPath(DotCodebase, file_path),
       JoinPath(AppCodebase, file_path) >>

\* Index of the first existing path of a candidate list, 0 when none exists
FirstExisting(files, cands) ==
    IF \E i \in 1..Len(cands) : PathExists(files, cands[i])
    THEN CHOOSE i \in 1..Len(cands) :
            /\ PathExists(files, cands[i])
            /\ \A j \in 1..(i - 1) : ~PathExists(files, cands[j])
    ELSE 0

\* load_codebase_from_file: the text of the first existing candidate; an
\* empty text (no candidate, or an empty file) raises FileNotFoundError.
load_codebase_from_file(files, file_path) ==
    LET cands == possible_paths(file_path)
        i == FirstExisting(files, cands)
        content == IF i = 0 THEN "" ELSE ReadFile(files, cands[i])
    IN  [ok |-> content # "", content |-> content,
         path |-> IF i = 0 THEN <<>> ELSE cands[i]]

\* Variant: the loader stores what it read whatever update_global says
GlobalAfterLoad_AlwaysUpdate(files, file_path, update_global, current) ==
    LET r == load_codebase_from_file(files, file_path)
    IN  IF r.ok THEN r.content ELSE current

\* The global slot after load_codebase_from_file(file_path, update_global)
GlobalAfterLoad(files, file_path, update_global, current) ==
    LET r == load_codebase_from_file(files, file_path)
    IN  IF r.ok /\ update_global THEN r.content ELSE current

\* Who assigned the global slot last, after the same call made by who
AtStartup == 0

WriterAfterLoad(files, file_path, update_global, current, who) ==
    LET r == load_codebase_from_file(files, file_path)
    IN  IF r.ok /\ update_global THEN who ELSE current

search_paths(project_path) ==
    << JoinPath(AppCodebase, <<project_path>>),
       JoinPath(DotCodebase, <<project_path>>),
       JoinPath(BareCodebase, <<project_path>>) >>

default_filenames(filename) ==
    LET defaults == <<"codebase.xml", "codebase.txt", "codebase.md", "codebase.json">>
    IN  IF Falsy(filename) THEN defaults ELSE <<filename>> \o defaults

\* Variant: the loops are nested the other way round (every search path
\* for each file name)
RECURSIVE Cross_FileMajor(_, _)
Cross_FileMajor(dirs, names) ==
    IF names = <<>> THEN <<>>
    ELSE [i \in 1..Len(dirs) |-> JoinPath(dirs[i], <<Head(names)>>)]
         \o Cross_FileMajor(dirs, Tail(names))

\* The candidates of find_codebase_file in the order the nested loops visit
\* them: for each search path, every file name.
RECURSIVE Cross(_, _)
Cross(dirs, names) ==
    IF dirs = <<>> THEN <<>>
    ELSE [i \in 1..Len(names) |-> JoinPath(Head(dirs), <<names[i]>>)]
         \o Cross(Tail(dirs), names)

FindCandidates(project_path, filename) ==
    Cross(search_paths(project_path), default_filenames(filename))

\* find_codebase_file: first existing candidate, else FileNotFoundError
find_codebase_file(files, project_path, filename) ==
    LET cands == FindCandidates(project_path, filename)
        i == FirstExisting(files, cands)
    IN  [ok |-> i # 0, path |-> IF i = 0 THEN <<>> ELSE cands[i]]

\* ---------------------------------------------------------------------
\* Bearer tokens and scopes
\* ---------------------------------------------------------------------
NoCredentials == [present |-> FALSE, scheme |-> "", token |-> "", verdict |-> "",
                  scope |-> <<>>, scopes |-> <<>>]

Lower(scheme) ==
    CASE scheme = "Bearer" -> "bearer"
      [] scheme = "Basic" -> "basic"
      [] scheme = "True" -> "true"
      [] OTHER -> scheme

\* _decode_and_validate: the claims of a token the identity provider's keys
\* verify (signature, expiry, issuer, audience); raises otherwise.
decode_and_validate(credentials) ==
    [ok |-> credentials.verdict = "ok",
     claims |-> [sub |-> "user", scope |-> credentials.scope,
                 scopes |-> credentials.scopes]]

AnonymousClaims == [sub |-> "anonymous", scope |-> <<>>, scopes |-> <<>>]
NoClaims == [sub |-> "", scope |-> <<>>, scopes |-> <<>>]

\* _token_scopes_set: the words of the scope string and the scopes list
token_scopes_set(claims) == Range(claims.scope) \cup Range(claims.scopes)

ProjectScope(project_name) == "deepview:project:" \o project_name \o ":read"

\* Variant: one static scope in the token is taken for all of them
has_required_scopes_AnyStatic(required, token_scopes, project_name) ==
    IF required # {} /\ required \cap token_scopes # {} THEN TRUE
    ELSE IF ~Falsy(project_name) /\ ProjectScope(project_name) \in token_scopes
         THEN TRUE
    ELSE required = {} /\ Falsy(project_name)

\* _has_required_scopes
has_required_scopes(required, token_scopes, project_name) ==
    IF required # {} /\ required \subseteq token_scopes THEN TRUE
    ELSE IF ~Falsy(project_name) /\ ProjectScope(project_name) \in token_scopes
         THEN TRUE
    ELSE required = {} /\ Falsy(project_name)

\* Variant: validation runs whatever the enforcement flag says
get_current_token_claims_AlwaysValidate(enabled, credentials) ==
    IF ~credentials.present \/ credentials.scheme = "" \/ credentials.token = ""
    THEN [status |-> 401, claims |-> NoClaims]
    ELSE IF Lower(credentials.scheme) # "bearer"
         THEN [status |-> 401, claims |-> NoClaims]
    ELSE IF decode_and_validate(credentials).ok
         THEN [status |-> 0, claims |-> decode_and_validate(credentials).claims]
    ELSE [status |-> 401, claims |-> NoClaims]

\* Variant: a token that fails validation is let through with its claims
get_current_token_claims_Swallow(enabled, credentials) ==
    IF ~enabled THEN [status |-> 0, claims |-> AnonymousClaims]
    ELSE IF ~credentials.present \/ credentials.scheme = "" \/ credentials.token = ""
         THEN [status |-> 401, claims |-> NoClaims]
    ELSE IF Lower(credentials.scheme) # "bearer"
         THEN [status |-> 401, claims |-> NoClaims]
    ELSE [status |-> 0, claims |-> decode_and_validate(credentials).claims]

\* get_current_token_claims: status 0 is a normal return, 401 the
\* HTTPException it raises.
get_current_token_claims(enabled, credentials) ==
    IF ~enabled THEN [status |-> 0, claims |-> AnonymousClaims]
    ELSE IF ~credentials.present \/ credentials.scheme = "" \/ credentials.token = ""
         THEN [status |-> 401, claims |-> NoClaims]
    ELSE IF Lower(credentials.scheme) # "bearer"
         THEN [status |-> 401, claims |-> NoClaims]
    ELSE IF decode_and_validate(credentials).ok
         THEN [status |-> 0, claims |-> decode_and_validate(credentials).claims]
    ELSE [status |-> 401, claims |-> NoClaims]

\* Variant: the guard validates the token but skips the scope check
require_project_scope_NoScopeCheck(enabled, required, project_name, credentials) ==
    get_current_token_claims(enabled, credentials)

\* require_project_scope: 0, or the status of the HTTPException it raises
require_project_scope(enabled, required, project_name, credentials) ==
    LET c == get_current_token_claims(enabled, credentials)
    IN  IF c.status # 0 THEN c
        ELSE IF ~enabled THEN c
        ELSE IF ~has_required_scopes(required, token_scopes_set(c.claims), project_name)
             THEN [status |-> 403, claims |-> c.claims]
        ELSE c

\* ---------------------------------------------------------------------
\* Deployments and requests the model explores
\* ---------------------------------------------------------------------
AcmeCorpus == <<"/", "app", "codebase", "acme", "codebase.txt">>
AcmeNotes == <<"codebase", "acme", "notes.md">>
RootCorpus == <<"/", "app", "codebase", "codebase.txt">>

FileSystems ==
    {[p \in {AcmeCorpus, AcmeNotes, RootCorpus} |->
        CASE p = AcmeCorpus -> a [] p = AcmeNotes -> n [] OTHER -> d] :
        a \in {Absent, "", "acme corpus"},
        n \in {Absent, "acme notes"},
        d \in {Absent, "root corpus"}}

StaticScopeChoices == {{}, {"read:all", "write:all"}}

ScopeClaimChoices == {<<>>, <<"read:all">>, <<ProjectScope("")>>}
ScopesClaimChoices == {<<>>, <<"write:all">>, <<ProjectScope("acme")>>}

Bearer(verdict, scope, scopes) ==
    [present |-> TRUE, scheme |-> "Bearer", token |-> "jwt", verdict |-> verdict,
     scope |-> scope, scopes |-> scopes]

ValidCredentials ==
    {Bearer("ok", a, b) : a \in ScopeClaimChoices, b \in ScopesClaimChoices}

InvalidCredentials ==
    { NoCredentials,
      [present |-> TRUE, scheme |-> "Basic", token |-> "dXNlcg", verdict |-> "",
       scope |-> <<>>, scopes |-> <<>>],
      Bearer("expired", <<"read:all">>, <<"write:all">>),
      Bearer("bad_signature", <<"read:all">>, <<"write:all">>) }

Credentials == InvalidCredentials \cup ValidCredentials

PostEndpoint == "POST /deepview-mcp/mcp"
ProjectEndpoint == "GET /{project_name}"
CodebaseEndpoint == "GET /codebase/{project_name}"
DiscoveryEndpoint == "GET /.well-known/mcp.json"
RestEndpoints == {ProjectEndpoint, CodebaseEndpoint}

KnownMethods == {"initialize", "notifications/initialized", "tools/list", "tools/call"}
Methods == KnownMethods \cup {"tools/frobnicate"}
Tools == {"deepview", "list_codebase_files", None}
Questions == {None, "", "purpose?"}
CodebaseFiles == {<<>>, <<"codebase.txt">>, <<"acme", "codebase.txt">>,
                  <<"ghost", "codebase.txt">>, <<"codebase", "acme", "notes.md">>}
Projects == {"acme", "ghost"}
Filenames == {None, "notes.md"}

Request(endpoint, cred, body, method, id, tool, question, codebase_file, project, filename) ==
    [endpoint |-> endpoint, cred |-> cred, body |-> body, method |-> method,
     id |-> id, tool |-> tool, question |-> question,
     codebase_file |-> codebase_file, project |-> project, filename |-> filename]

NoRequest ==
    Request("", NoCredentials, "", None, NoId, None, None, <<>>, "", None)

\* Bodies that are not a JSON object make request.json()/body.get raise
PostRequests ==
    {Request(PostEndpoint, c, "invalid", None, NoId, None, None, <<>>, "", None) :
        c \in Credentials}
    \cup
    {Request(PostEndpoint, c, "object", m, i, None, None, <<>>, "", None) :
        c \in Credentials, m \in Methods \ {"tools/call"}, i \in Ids}
    \cup
    {Request(PostEndpoint, c, "object", "tools/call", i, t, None, <<>>, "", None) :
        c \in Credentials, i \in Ids, t \in Tools \ {"deepview"}}
    \cup
    {Request(PostEndpoint, c, "object", "tools/call", i, "deepview", q, f, "", None) :
        c \in Credentials, i \in Ids, q \in Questions, f \in CodebaseFiles}

RestRequests ==
    {Request(e, c, "", None, NoId, None, "purpose?", <<>>, p, f) :
        e \in RestEndpoints, c \in Credentials, p \in Projects, f \in Filenames}

\* ---------------------------------------------------------------------
\* Environment and create_http_server
\* ---------------------------------------------------------------------
Issuer == "https://idp.example"
Audience == "deepview-api"
JwksUrl == "https://idp.example/jwks.json"

EndsWithSlash(url) == url \in {Issuer \o "/"}

WithSlash(url) == IF EndsWithSlash(url) THEN url ELSE url \o "/"

\* os.getenv of each option (None when unset); OAUTH_REQUIRED_SCOPES split
\* at its commas; discovery is what the issuer's openid-configuration
\* answers: a document with jwks_uri, one without, or a failed GET.
Environment(key, enabled, issuer, audience, jwks, scopes, discovery) ==
    [GEMINI_API_KEY |-> key, OAUTH_ENABLED |-> enabled, OIDC_ISSUER |-> issuer,
     OIDC_AUDIENCE |-> audience, OIDC_JWKS_URL |-> jwks,
     OAUTH_REQUIRED_SCOPES |-> scopes, discovery |-> discovery]

DiscoveryOutcomes == {"jwks_uri", "no_jwks_uri", "get_failed"}

Environments ==
    {Environment(k, e, i, a, j, s, d) :
        k \in {None, "key"},
        e \in {None, "true", "True", "1"},
        i \in {None, "", Issuer, Issuer \o "/"},
        a \in {None, Audience},
        j \in {None, JwksUrl},
        s \in {<<>>, <<"read:all", "", "write:all">>},
        d \in DiscoveryOutcomes}

\* The environments the requests of Spec are served under
ServingEnvironments ==
    {Environment("key", e, Issuer, Audience, JwksUrl, s, "jwks_uri") :
        e \in {None, "true"},
        s \in {<<>>, <<"read:all", "write:all">>}}

\* What create_http_server leaves in its closure, or that it raised
Raised ==
    [ok |-> FALSE, OAUTH_ENABLED |-> FALSE, OIDC_ISSUER |-> None,
     OIDC_AUDIENCE |-> None, OIDC_JWKS_URL |-> None, REQUIRED_SCOPES_STATIC |-> {}]

\* Variant: a failed discovery is logged and the server starts without keys
create_http_server_DiscoveryOptional(e) ==
    LET enabled == Lower(IF e.OAUTH_ENABLED = None THEN "false"
                         ELSE e.OAUTH_ENABLED) = "true"
        scopes == {x \in Range(e.OAUTH_REQUIRED_SCOPES) : x # ""}
    IN  IF Falsy(e.GEMINI_API_KEY) THEN Raised
        ELSE IF ~enabled
        THEN [ok |-> TRUE, OAUTH_ENABLED |-> FALSE, OIDC_ISSUER |-> e.OIDC_ISSUER,
              OIDC_AUDIENCE |-> e.OIDC_AUDIENCE, OIDC_JWKS_URL |-> e.OIDC_JWKS_URL,
              REQUIRED_SCOPES_STATIC |-> scopes]
        ELSE IF Falsy(e.OIDC_ISSUER) \/ Falsy(e.OIDC_AUDIENCE) THEN Raised
        ELSE [ok |-> TRUE, OAUTH_ENABLED |-> TRUE,
              OIDC_ISSUER |-> WithSlash(e.OIDC_ISSUER),
              OIDC_AUDIENCE |-> e.OIDC_AUDIENCE,
              OIDC_JWKS_URL |-> IF Falsy(e.OIDC_JWKS_URL) /\ e.discovery = "jwks_uri"
                                THEN JwksUrl ELSE e.OIDC_JWKS_URL,
              REQUIRED_SCOPES_STATIC |-> scopes]

create_http_server(e) ==
    LET enabled == Lower(IF e.OAUTH_ENABLED = None THEN "false"
                         ELSE e.OAUTH_ENABLED) = "true"
        scopes == {x \in Range(e.OAUTH_REQUIRED_SCOPES) : x # ""}
    IN  IF Falsy(e.GEMINI_API_KEY) THEN Raised
        ELSE IF ~enabled
        THEN [ok |-> TRUE, OAUTH_ENABLED |-> FALSE, OIDC_ISSUER |-> e.OIDC_ISSUER,
              OIDC_AUDIENCE |-> e.OIDC_AUDIENCE, OIDC_JWKS_URL |-> e.OIDC_JWKS_URL,
              REQUIRED_SCOPES_STATIC |-> scopes]
        ELSE IF Falsy(e.OIDC_ISSUER) \/ Falsy(e.OIDC_AUDIENCE) THEN Raised
        ELSE IF Falsy(e.OIDC_JWKS_URL) /\ e.discovery # "jwks_uri" THEN Raised
        ELSE [ok |-> TRUE, OAUTH_ENABLED |-> TRUE,
              OIDC_ISSUER |-> WithSlash(e.OIDC_ISSUER),
              OIDC_AUDIENCE |-> e.OIDC_AUDIENCE,
              OIDC_JWKS_URL |-> IF Falsy(e.OIDC_JWKS_URL) THEN JwksUrl
                                ELSE e.OIDC_JWKS_URL,
              REQUIRED_SCOPES_STATIC |-> scopes]

\* The "authorization" member of the discovery document: null, or the
\* object derived from the issuer (scopes stands for the sorted list)
NoAuthorization ==
    [present |-> FALSE, type |-> "", issuer |-> "", authorization_endpoint |-> "",
     token_endpoint |-> "", audience |-> "", scopes |-> {}]

mcp_discovery(oidc_issuer, oidc_audience, required_scopes) ==
    IF Falsy(oidc_issuer) THEN NoAuthorization
    ELSE LET issuer == WithSlash(oidc_issuer)
         IN  [present |-> TRUE, type |-> "oauth2", issuer |-> issuer,
              authorization_endpoint |-> issuer \o "authorize",
              token_endpoint |-> issuer \o "oauth/token",
              audience |-> oidc_audience, scopes |-> required_scopes]

\* ---------------------------------------------------------------------
\* Responses
\* ---------------------------------------------------------------------
\* kind: what the body is; jsonrpc/hasId: whether the body has those keys;
\* code: the JSON-RPC error code (0 when none); data: what the error text
\* carries; files: the paths a file listing names.
Response(status, kind, jsonrpc, hasId, id, code, data) ==
    [status |-> status, kind |-> kind, jsonrpc |-> jsonrpc, hasId |-> hasId,
     id |-> id, code |-> code, data |-> data, files |-> {},
     authorization |-> NoAuthorization]

NoResponse == Response(0, "", FALSE, FALSE, NoId, 0, "")

\* JSONResponse({"jsonrpc": "2.0", "id": request_id, "result": ...})
RpcResult(id, kind) == Response(200, kind, TRUE, TRUE, id, 0, "")
\* JSONResponse({"jsonrpc": "2.0", "id": request_id, "error": {...}}, status)
RpcError(id, status, code, data) == Response(status, "rpc_error", TRUE, TRUE, id, code, data)
\* JSONResponse({"error": text}, status_code=status)
PlainError(status, data) == Response(status, "plain_error", FALSE, FALSE, NoId, 0, data)
\* the response FastAPI builds from a raised HTTPException
HttpError(status, data) == Response(status, "http_exception", FALSE, FALSE, NoId, 0, data)

\* ---------------------------------------------------------------------
\* Startup (cli.main) and the corpus root listing
\* ---------------------------------------------------------------------
Extension(name) ==
    CASE name \in {"codebase.txt"} -> ".txt"
      [] name \in {"codebase.md", "notes.md"} -> ".md"
      [] name \in {"logo.png"} -> ".png"
      [] name \in {"codebase.xml"} -> ".xml"
      [] name \in {"codebase.json"} -> ".json"
      [] OTHER -> ""

Present(files) == {p \in DOMAIN files : files[p] # Absent}

IsUnder(p, dir) == Len(p) > Len(dir) /\ SubSeq(p, 1, Len(dir)) = dir

\* A directory exists when it was created, or when a file lies below it
DirExists(files, dir) ==
    PathExists(files, dir) \/ \E p \in Present(files) : IsUnder(p, dir)

\* os.listdir("/app/codebase") filtered to .txt and .md
DefaultDirFiles(files) ==
    {p \in Present(files) :
        DirName(p) = AppCodebase /\ Extension(BaseName(p)) \in {".txt", ".md"}}

StartupArgs == {<<>>, <<"acme", "codebase.txt">>}

\* The values the global slot can hold when main() reaches uvicorn.run; a
\* command-line file that cannot be loaded ends the process instead.
StartupContents(files, arg) ==
    IF arg # <<>>
    THEN IF load_codebase_from_file(files, arg).ok
         THEN {GlobalAfterLoad(files, arg, TRUE, "")}
         ELSE {}
    ELSE IF DefaultDirFiles(files) = {} THEN {""}
         ELSE {GlobalAfterLoad(files, p, TRUE, "") : p \in DefaultDirFiles(files)}

\* Variant: the root is listed, not walked
ListCodebaseFiles_TopLevelOnly(files) ==
    LET codebase_dir == IF DirExists(files, AppCodebase)
                        THEN AppCodebase ELSE BareCodebase
    IN  {SubSeq(p, Len(codebase_dir) + 1, Len(p)) :
            p \in {q \in Present(files) :
                    /\ DirName(q) = codebase_dir
                    /\ Extension(BaseName(q)) \in {".xml", ".txt", ".md", ".json"}}}

\* list_codebase_files: root-relative paths with a recognised extension
ListCodebaseFiles(files) ==
    LET codebase_dir == IF DirExists(files, AppCodebase)
                        THEN AppCodebase ELSE BareCodebase
    IN  {SubSeq(p, Len(codebase_dir) + 1, Len(p)) :
            p \in {q \in Present(files) :
                    /\ IsUnder(q, codebase_dir)
                    /\ Extension(BaseName(q)) \in {".xml", ".txt", ".md", ".json"}}}

\* ---------------------------------------------------------------------
\* State
\* ---------------------------------------------------------------------
VARIABLES
    OAUTH_ENABLED,              \* enforcement flag, fixed at startup
    REQUIRED_SCOPES_STATIC,     \* static required scopes, fixed at startup
    fs,                         \* the file system: path -> text or Absent
    codebase_content,           \* the process-wide default corpus
    req,                        \* slot -> the request being served
    pc,                         \* slot -> position of its handler
    claims,                     \* slot -> claims resolved for the request
    local_codebase,             \* slot -> corpus text loaded for the request
    project_name,               \* slot -> project the handler works on
    codebase_file,              \* slot -> file the REST handler resolved
    trace,                      \* slot -> what the handler did, in order
    resp,                       \* slot -> response sent
    slot_writer,                \* who assigned codebase_content last
    env,                        \* the environment main() was started in
    process,                    \* "starting", "serving" or "exit_1"
    OIDC_ISSUER,                \* issuer, as create_http_server left it
    OIDC_AUDIENCE               \* audience, as create_http_server left it

config == <<OAUTH_ENABLED, REQUIRED_SCOPES_STATIC, fs, env, process, OIDC_ISSUER,
            OIDC_AUDIENCE>>
locals == <<claims, local_codebase, project_name, codebase_file>>
vars == <<OAUTH_ENABLED, REQUIRED_SCOPES_STATIC, fs, codebase_content, req, pc,
          claims, local_codebase, project_name, codebase_file, trace, resp,
          slot_writer, env, process, OIDC_ISSUER, OIDC_AUDIENCE>>

\* main() has reached uvicorn.run: create_http_server(e) returned the app
Serving(e) ==
    /\ env = e
    /\ process = "serving"
    /\ OAUTH_ENABLED = create_http_server(e).OAUTH_ENABLED
    /\ REQUIRED_SCOPES_STATIC = create_http_server(e).REQUIRED_SCOPES_STATIC
    /\ OIDC_ISSUER = create_http_server(e).OIDC_ISSUER
    /\ OIDC_AUDIENCE = create_http_server(e).OIDC_AUDIENCE

\* The serving environments with no static scopes
ScopelessEnvironments ==
    {e \in ServingEnvironments : e.OAUTH_REQUIRED_SCOPES = <<>>}

OpenEnvironment == Environment("key", None, Issuer, Audience, JwksUrl, <<>>, "jwks_uri")

Init ==
    /\ \E e \in ServingEnvironments : create_http_server(e).ok /\ Serving(e)
    /\ fs \in FileSystems
    /\ codebase_content \in UNION {StartupContents(fs, a) : a \in StartupArgs}
    /\ req = [r \in Reqs |-> NoRequest]
    /\ pc = [r \in Reqs |-> "idle"]
    /\ claims = [r \in Reqs |-> NoClaims]
    /\ local_codebase = [r \in Reqs |-> ""]
    /\ project_name = [r \in Reqs |-> ""]
    /\ codebase_file = [r \in Reqs |-> <<>>]
    /\ trace = [r \in Reqs |-> <<>>]
    /\ resp = [r \in Reqs |-> NoResponse]
    /\ slot_writer = AtStartup

\* ---------------------------------------------------------------------
\* Arrival and completion of requests
\* ---------------------------------------------------------------------
FreeSlot == CHOOSE r \in Reqs : pc[r] = "idle" /\ \A s \in Reqs : s < r => pc[s] # "idle"

Arrive(r, request) ==
    /\ process = "serving"
    /\ pc[r] = "idle"
    /\ req' = [req EXCEPT ![r] = request]
    /\ pc' = [pc EXCEPT ![r] =
                CASE request.endpoint = PostEndpoint -> "mcp_auth"
                  [] request.endpoint = DiscoveryEndpoint -> "mcp_discovery"
                  [] OTHER -> "rest_guard"]
    /\ UNCHANGED <<config, codebase_content, slot_writer, locals, trace, resp>>

\* One client at a time: a request arrives when no other is in flight
ReceivePost ==
    /\ \A s \in Reqs : pc[s] = "idle"
    /\ \E request \in PostRequests : Arrive(FreeSlot, request)

ReceiveRest ==
    /\ \A s \in Reqs : pc[s] = "idle"
    /\ \E request \in RestRequests : Arrive(FreeSlot, request)

\* The handler returns response, having done events
Finish(r, response, events) ==
    /\ pc' = [pc EXCEPT ![r] = "done"]
    /\ resp' = [resp EXCEPT ![r] = response]
    /\ trace' = [trace EXCEPT ![r] = @ \o events]

Goto(r, label, events) ==
    /\ pc' = [pc EXCEPT ![r] = label]
    /\ trace' = [trace EXCEPT ![r] = @ \o events]
    /\ UNCHANGED resp

\* The response has been delivered; the slot is free again
Complete(r) ==
    /\ pc[r] = "done"
    /\ pc' = [pc EXCEPT ![r] = "idle"]
    /\ req' = [req EXCEPT ![r] = NoRequest]
    /\ claims' = [claims EXCEPT ![r] = NoClaims]
    /\ local_codebase' = [local_codebase EXCEPT ![r] = ""]
    /\ project_name' = [project_name EXCEPT ![r] = ""]
    /\ codebase_file' = [codebase_file EXCEPT ![r] = <<>>]
    /\ trace' = [trace EXCEPT ![r] = <<>>]
    /\ resp' = [resp EXCEPT ![r] = NoResponse]
    /\ UNCHANGED <<config, codebase_content, slot_writer>>

\* ---------------------------------------------------------------------
\* POST /deepview-mcp/mcp (mcp_endpoint)
\* ---------------------------------------------------------------------
\* except Exception as e: return JSONResponse({"error": str(e)}, 500)
OuterExcept(text) == PlainError(500, text)

\* Read the body, then resolve the claims
McpAuthenticate(r) ==
    /\ pc[r] = "mcp_auth"
    /\ IF req[r].body # "object"
       THEN /\ Finish(r, OuterExcept("exception text"), <<>>)
            /\ UNCHANGED claims
       ELSE IF OAUTH_ENABLED
       THEN LET c == get_current_token_claims(OAUTH_ENABLED, req[r].cred)
            IN  IF c.status # 0
                THEN /\ Finish(r, OuterExcept("401: detail"), <<"auth_failed">>)
                     /\ UNCHANGED claims
                ELSE /\ Goto(r, "mcp_dispatch", <<"validated">>)
                     /\ claims' = [claims EXCEPT ![r] = c.claims]
       ELSE /\ Goto(r, "mcp_dispatch", <<>>)
            /\ claims' = [claims EXCEPT ![r] = AnonymousClaims]
    /\ UNCHANGED <<config, codebase_content, slot_writer, req, local_codebase, project_name,
                   codebase_file>>

\* Variant: the error object is built without the request's id
MethodNotFound_NullId(id) == RpcError(NoId, 400, -32601, "Unknown method")

MethodNotFound(id) == RpcError(id, 400, -32601, "Unknown method")
InternalError(id) == RpcError(id, 500, -32603, "exception text")

\* The result of tools/call list_codebase_files: data is the first line of
\* the text block, files the paths on the lines that follow it
FileListResult(id, files) ==
    LET listed == ListCodebaseFiles(files)
    IN  [RpcResult(id, IF listed # {} THEN "file_list" ELSE "no_files")
            EXCEPT !.files = listed,
                   !.data = IF listed # {} THEN "Available codebase files:"
                            ELSE "No codebase files found"]

\* Variant: the dispatcher has no arm for initialize
DispatchResponse_NoInitialize(request, files) ==
    CASE request.method = "notifications/initialized" ->
            Response(200, "empty", FALSE, FALSE, NoId, 0, "")
      [] request.method = "tools/list" -> RpcResult(request.id, "tools")
      [] request.method = "tools/call" /\ request.tool = "deepview" ->
            PlainError(400, "Question is required")
      [] request.method = "tools/call" /\ request.tool = "list_codebase_files" ->
            FileListResult(request.id, files)
      [] OTHER -> MethodNotFound(request.id)

\* The answer to every method but a deepview call that carries a question
DispatchResponse(request, files) ==
    CASE request.method = "initialize" -> RpcResult(request.id, "initialize")
      [] request.method = "notifications/initialized" ->
            Response(200, "empty", FALSE, FALSE, NoId, 0, "")
      [] request.method = "tools/list" -> RpcResult(request.id, "tools")
      [] request.method = "tools/call" /\ request.tool = "deepview" ->
            PlainError(400, "Question is required")
      [] request.method = "tools/call" /\ request.tool = "list_codebase_files" ->
            FileListResult(request.id, files)
      [] OTHER -> MethodNotFound(request.id)

\* Variant: a deepview call is served whether or not it carries a question
McpDispatch_NoQuestionCheck(r) ==
    /\ pc[r] = "mcp_dispatch"
    /\ IF /\ req[r].method = "tools/call"
          /\ req[r].tool = "deepview"
       THEN Goto(r, "mcp_load", <<>>)
       ELSE Finish(r, DispatchResponse(req[r], fs), <<>>)
    /\ UNCHANGED <<config, codebase_content, slot_writer, req, locals>>

McpDispatch(r) ==
    /\ pc[r] = "mcp_dispatch"
    /\ IF /\ req[r].method = "tools/call"
          /\ req[r].tool = "deepview"
          /\ ~Falsy(req[r].question)
       THEN Goto(r, "mcp_load", <<>>)
       ELSE Finish(r, DispatchResponse(req[r], fs), <<>>)
    /\ UNCHANGED <<config, codebase_content, slot_writer, req, locals>>

\* Variant: the named file is loaded with the loader's default update_global
McpLoad_UpdateGlobal(r) ==
    /\ pc[r] = "mcp_load"
    /\ LET file == req[r].codebase_file
           loaded == load_codebase_from_file(fs, file)
       IN  IF file # <<>>
           THEN /\ codebase_content' =
                        GlobalAfterLoad(fs, file, TRUE, codebase_content)
                /\ slot_writer' = WriterAfterLoad(fs, file, TRUE, slot_writer, r)
                /\ IF ~loaded.ok
                   THEN /\ Finish(r, InternalError(req[r].id),
                                  IF loaded.path # <<>> THEN <<"read">> ELSE <<>>)
                        /\ UNCHANGED <<local_codebase, project_name>>
                   ELSE /\ Goto(r, "mcp_scope", <<"read">>)
                        /\ local_codebase' = [local_codebase EXCEPT ![r] = loaded.content]
                        /\ project_name' = [project_name EXCEPT ![r] = ProjectOf(file)]
           ELSE /\ UNCHANGED <<codebase_content, slot_writer>>
                /\ local_codebase' = [local_codebase EXCEPT ![r] = codebase_content]
                /\ project_name' = [project_name EXCEPT ![r] = "default"]
                /\ IF codebase_content = ""
                   THEN Finish(r, PlainError(404, "No codebase content available"), <<>>)
                   ELSE Goto(r, "mcp_scope", <<>>)
    /\ UNCHANGED <<config, req, claims, codebase_file>>

\* Load the corpus: the named file, or the process-wide default
McpLoad(r) ==
    /\ pc[r] = "mcp_load"
    /\ LET file == req[r].codebase_file
           loaded == load_codebase_from_file(fs, file)
       IN  IF file # <<>>
           THEN /\ codebase_content' =
                        GlobalAfterLoad(fs, file, FALSE, codebase_content)
                /\ slot_writer' = WriterAfterLoad(fs, file, FALSE, slot_writer, r)
                /\ IF ~loaded.ok
                   THEN /\ Finish(r, InternalError(req[r].id),
                                  IF loaded.path # <<>> THEN <<"read">> ELSE <<>>)
                        /\ UNCHANGED <<local_codebase, project_name>>
                   ELSE /\ Goto(r, "mcp_scope", <<"read">>)
                        /\ local_codebase' = [local_codebase EXCEPT ![r] = loaded.content]
                        /\ project_name' = [project_name EXCEPT ![r] = ProjectOf(file)]
           ELSE /\ UNCHANGED <<codebase_content, slot_writer>>
                /\ local_codebase' = [local_codebase EXCEPT ![r] = codebase_content]
                /\ project_name' = [project_name EXCEPT ![r] = "default"]
                /\ IF codebase_content = ""
                   THEN Finish(r, PlainError(404, "No codebase content available"), <<>>)
                   ELSE Goto(r, "mcp_scope", <<>>)
    /\ UNCHANGED <<config, req, claims, codebase_file>>

\* Variant: the scope is checked on the way in, before any corpus is loaded
McpScope_NoLoadNeeded(r) ==
    /\ pc[r] \in {"mcp_load", "mcp_scope"}
    /\ IF OAUTH_ENABLED
       THEN IF ~has_required_scopes(REQUIRED_SCOPES_STATIC, token_scopes_set(claims[r]),
                                    IF req[r].codebase_file = <<>> THEN "default"
                                    ELSE ProjectOf(req[r].codebase_file))
            THEN Finish(r, PlainError(403, "Insufficient scope for this project"),
                        <<"scope_denied">>)
            ELSE /\ pc[r] = "mcp_scope"
                 /\ Goto(r, "mcp_bridge", <<"scope_ok">>)
       ELSE /\ pc[r] = "mcp_scope"
            /\ Goto(r, "mcp_bridge", <<>>)
    /\ UNCHANGED <<config, codebase_content, slot_writer, req, locals>>

\* Enforce the per-project scope when OAuth is enabled
McpScope(r) ==
    /\ pc[r] = "mcp_scope"
    /\ IF OAUTH_ENABLED
       THEN IF ~has_required_scopes(REQUIRED_SCOPES_STATIC,
                                    token_scopes_set(claims[r]), project_name[r])
            THEN Finish(r, PlainError(403, "Insufficient scope for this project"),
                        <<"scope_denied">>)
            ELSE Goto(r, "mcp_bridge", <<"scope_ok">>)
       ELSE Goto(r, "mcp_bridge", <<>>)
    /\ UNCHANGED <<config, codebase_content, slot_writer, req, locals>>

\* analyze_with_gemini: the upstream call answers or raises
McpBridge(r) ==
    /\ pc[r] = "mcp_bridge"
    /\ \E outcome \in {"answer", "raise"} :
        IF outcome = "answer"
        THEN Finish(r, RpcResult(req[r].id, "text"), <<"bridge">>)
        ELSE Finish(r, InternalError(req[r].id), <<"bridge", "bridge_raised">>)
    /\ UNCHANGED <<config, codebase_content, slot_writer, req, locals>>

\* ---------------------------------------------------------------------
\* GET /{project_name} and GET /codebase/{project_name}
\* ---------------------------------------------------------------------
\* Depends(require_project_scope): runs before the handler body
RestGuard(r) ==
    /\ pc[r] = "rest_guard"
    /\ LET c == require_project_scope(OAUTH_ENABLED, REQUIRED_SCOPES_STATIC,
                                      req[r].project, req[r].cred)
           events == IF ~OAUTH_ENABLED THEN <<>>
                     ELSE IF c.status = 401 THEN <<"auth_failed">>
                     ELSE IF c.status = 403 THEN <<"validated", "scope_denied">>
                     ELSE <<"validated", "scope_ok">>
       IN  /\ claims' = [claims EXCEPT ![r] = c.claims]
           /\ project_name' = [project_name EXCEPT ![r] = req[r].project]
           /\ IF c.status # 0
              THEN Finish(r, HttpError(c.status, "detail"), events)
              ELSE Goto(r, "rest_find", events)
    /\ UNCHANGED <<config, codebase_content, slot_writer, req, local_codebase, codebase_file>>

RestFind(r) ==
    /\ pc[r] = "rest_find"
    /\ LET found == find_codebase_file(fs, project_name[r], req[r].filename)
       IN  IF ~found.ok
           THEN /\ Finish(r, HttpError(404, "No codebase file found in project"), <<>>)
                /\ UNCHANGED codebase_file
           ELSE /\ Goto(r, "rest_load", <<>>)
                /\ codebase_file' = [codebase_file EXCEPT ![r] = found.path]
    /\ UNCHANGED <<config, codebase_content, slot_writer, req, claims, local_codebase, project_name>>

RestLoad(r) ==
    /\ pc[r] = "rest_load"
    /\ LET loaded == load_codebase_from_file(fs, codebase_file[r])
           events == IF loaded.path # <<>> THEN <<"read">> ELSE <<>>
       IN  /\ codebase_content' =
                    GlobalAfterLoad(fs, codebase_file[r], FALSE, codebase_content)
           /\ slot_writer' =
                    WriterAfterLoad(fs, codebase_file[r], FALSE, slot_writer, r)
           /\ IF ~loaded.ok
              THEN /\ Finish(r, HttpError(404, "Codebase file not found"), events)
                   /\ UNCHANGED local_codebase
              ELSE IF loaded.content = ""
              THEN /\ Finish(r, HttpError(500, "Analysis failed"), events)
                   /\ UNCHANGED local_codebase
              ELSE /\ Goto(r, "rest_bridge", events)
                   /\ local_codebase' = [local_codebase EXCEPT ![r] = loaded.content]
    /\ UNCHANGED <<config, req, claims, project_name, codebase_file>>

RestBridge(r) ==
    /\ pc[r] = "rest_bridge"
    /\ \E outcome \in {"answer", "raise"} :
        IF outcome = "answer"
        THEN Finish(r, Response(200, "analysis", FALSE, FALSE, NoId, 0, ""), <<"bridge">>)
        ELSE Finish(r, HttpError(500, "Analysis failed"), <<"bridge", "bridge_raised">>)
    /\ UNCHANGED <<config, codebase_content, slot_writer, req, locals>>

\* ---------------------------------------------------------------------
\* GET /.well-known/mcp.json (mcp_discovery)
\* ---------------------------------------------------------------------
DiscoveryDocument(oidc_issuer, oidc_audience, required_scopes) ==
    [Response(200, "discovery", FALSE, FALSE, NoId, 0, "")
        EXCEPT !.authorization =
                    mcp_discovery(oidc_issuer, oidc_audience, required_scopes)]

McpDiscovery(r) ==
    /\ pc[r] = "mcp_discovery"
    /\ Finish(r, DiscoveryDocument(OIDC_ISSUER, OIDC_AUDIENCE,
                                   REQUIRED_SCOPES_STATIC), <<>>)
    /\ UNCHANGED <<config, codebase_content, slot_writer, req, locals>>

\* ---------------------------------------------------------------------
\* Startup: the try block of main()
\* ---------------------------------------------------------------------
\* create_http_server returns and uvicorn.run serves, or it raises and the
\* except clause ends the process with sys.exit(1)
StartServer ==
    /\ process = "starting"
    /\ LET app == create_http_server(env)
       IN  /\ process' = IF app.ok THEN "serving" ELSE "exit_1"
           /\ OAUTH_ENABLED' = app.OAUTH_ENABLED
           /\ REQUIRED_SCOPES_STATIC' = app.REQUIRED_SCOPES_STATIC
           /\ OIDC_ISSUER' = app.OIDC_ISSUER
           /\ OIDC_AUDIENCE' = app.OIDC_AUDIENCE
    /\ UNCHANGED <<fs, env, codebase_content, slot_writer, req, pc, locals, trace, resp>>

\* ---------------------------------------------------------------------
\* Specification: requests served one at a time
\* ---------------------------------------------------------------------
Next ==
    \/ ReceivePost
    \/ ReceiveRest
    \/ \E r \in Reqs : McpAuthenticate(r)
    \/ \E r \in Reqs : McpDispatch(r)
    \/ \E r \in Reqs : McpLoad(r)
    \/ \E r \in Reqs : McpScope(r)
    \/ \E r \in Reqs : McpBridge(r)
    \/ \E r \in Reqs : RestGuard(r)
    \/ \E r \in Reqs : RestFind(r)
    \/ \E r \in Reqs : RestLoad(r)
    \/ \E r \in Reqs : RestBridge(r)
    \/ \E r \in Reqs : Complete(r)

Spec == Init /\ [][Next]_vars

TypeOK ==
    /\ OAUTH_ENABLED \in BOOLEAN
    /\ \A r \in Reqs : pc[r] \in {"idle", "mcp_auth", "mcp_dispatch", "mcp_load",
                                  "mcp_scope", "mcp_bridge", "rest_guard",
                                  "rest_find", "rest_load", "rest_bridge",
                                  "mcp_discovery", "done"}
    /\ process \in {"starting", "serving", "exit_1"}

\* ---------------------------------------------------------------------
\* Specification: the resolver under every layout of one project's files
\* ---------------------------------------------------------------------
FindNames == {"codebase.xml", "codebase.txt", "codebase.md", "codebase.json", "notes.md"}
FindPaths ==
    {JoinPath(AppCodebase, <<"acme", n>>) : n \in FindNames}
    \cup {JoinPath(BareCodebase, <<"acme", n>>) : n \in FindNames}
FindFileSystems == [FindPaths -> {Absent, "corpus"}]
FindHints == {None, "", "notes.md", "codebase.md"}

FindRequests ==
    {Request(ProjectEndpoint, NoCredentials, "", None, NoId, None, "purpose?",
             <<>>, p, h) : p \in Projects, h \in FindHints}

InitFind ==
    /\ Serving(OpenEnvironment)
    /\ fs \in FindFileSystems
    /\ codebase_content = ""
    /\ req = [r \in Reqs |-> NoRequest]
    /\ pc = [r \in Reqs |-> "idle"]
    /\ claims = [r \in Reqs |-> NoClaims]
    /\ local_codebase = [r \in Reqs |-> ""]
    /\ project_name = [r \in Reqs |-> ""]
    /\ codebase_file = [r \in Reqs |-> <<>>]
    /\ trace = [r \in Reqs |-> <<>>]
    /\ resp = [r \in Reqs |-> NoResponse]
    /\ slot_writer = AtStartup

ReceiveFind ==
    /\ \A s \in Reqs : pc[s] = "idle"
    /\ \E request \in FindRequests : Arrive(FreeSlot, request)

NextFind ==
    \/ ReceiveFind
    \/ \E r \in Reqs : RestGuard(r)
    \/ \E r \in Reqs : RestFind(r)
    \/ \E r \in Reqs : RestLoad(r)
    \/ \E r \in Reqs : RestBridge(r)
    \/ \E r \in Reqs : Complete(r)

SpecFind == InitFind /\ [][NextFind]_vars

\* ---------------------------------------------------------------------
\* Specification: the file listing under every layout of the corpus roots
\* ---------------------------------------------------------------------
AcmeXml == <<"/", "app", "codebase", "acme", "codebase.xml">>
AcmeLogo == <<"/", "app", "codebase", "acme", "logo.png">>
DeepNotes == <<"/", "app", "codebase", "acme", "docs", "notes.md">>
BareJson == <<"codebase", "codebase.json">>
BareLogo == <<"codebase", "acme", "logo.png">>

ListPaths == {RootCorpus, AcmeXml, AcmeLogo, DeepNotes, AcmeNotes, BareJson, BareLogo}

\* Every layout of the seven files, with /app/codebase created or not
ListFileSystems ==
    {[p \in ListPaths \cup {AppCodebase} |->
        IF p = AppCodebase THEN (IF made THEN "<dir>" ELSE Absent)
        ELSE IF p \in present THEN "text" ELSE Absent] :
        present \in SUBSET ListPaths, made \in BOOLEAN}

ListRequests ==
    {Request(PostEndpoint, c, "object", "tools/call", i, "list_codebase_files", None, <<>>, "", None) :
        c \in {NoCredentials, Bearer("ok", <<>>, <<>>)}, i \in Ids}

InitList ==
    /\ \E e \in ScopelessEnvironments : Serving(e)
    /\ fs \in ListFileSystems
    /\ codebase_content = ""
    /\ req = [r \in Reqs |-> NoRequest]
    /\ pc = [r \in Reqs |-> "idle"]
    /\ claims = [r \in Reqs |-> NoClaims]
    /\ local_codebase = [r \in Reqs |-> ""]
    /\ project_name = [r \in Reqs |-> ""]
    /\ codebase_file = [r \in Reqs |-> <<>>]
    /\ trace = [r \in Reqs |-> <<>>]
    /\ resp = [r \in Reqs |-> NoResponse]
    /\ slot_writer = AtStartup

ReceiveList ==
    /\ \A s \in Reqs : pc[s] = "idle"
    /\ \E request \in ListRequests : Arrive(FreeSlot, request)

NextList ==
    \/ ReceiveList
    \/ \E r \in Reqs : McpAuthenticate(r)
    \/ \E r \in Reqs : McpDispatch(r)
    \/ \E r \in Reqs : Complete(r)

SpecList == InitList /\ [][NextList]_vars

\* ---------------------------------------------------------------------
\* Specification: requests in flight together
\* ---------------------------------------------------------------------
\* The handlers are coroutines of one event loop: a request arrives whenever
\* a slot is free, and the steps of the requests in flight interleave.
ConcurrentFileSystem ==
    CHOOSE f \in FileSystems :
        /\ f[AcmeCorpus] = "acme corpus"
        /\ f[AcmeNotes] = "acme notes"
        /\ f[RootCorpus] = "root corpus"

ConcurrentCredentials ==
    {NoCredentials, Bearer("ok", <<>>, <<ProjectScope("acme")>>)}

ConcurrentRequests ==
    {Request(PostEndpoint, c, "object", "tools/call", <<1>>, "deepview", "purpose?", f, "", None) :
        c \in ConcurrentCredentials, f \in {<<>>, <<"acme", "codebase.txt">>}}
    \cup
    {Request(ProjectEndpoint, c, "", None, NoId, None, "purpose?", <<>>, "acme", None) :
        c \in ConcurrentCredentials}

InitConcurrent ==
    /\ \E e \in ScopelessEnvironments : Serving(e)
    /\ fs = ConcurrentFileSystem
    /\ codebase_content \in StartupContents(ConcurrentFileSystem, <<>>)
    /\ req = [r \in Reqs |-> NoRequest]
    /\ pc = [r \in Reqs |-> "idle"]
    /\ claims = [r \in Reqs |-> NoClaims]
    /\ local_codebase = [r \in Reqs |-> ""]
    /\ project_name = [r \in Reqs |-> ""]
    /\ codebase_file = [r \in Reqs |-> <<>>]
    /\ trace = [r \in Reqs |-> <<>>]
    /\ resp = [r \in Reqs |-> NoResponse]
    /\ slot_writer = AtStartup

ReceiveConcurrent ==
    \E r \in Reqs : \E request \in ConcurrentRequests : Arrive(r, request)

NextConcurrent ==
    \/ ReceiveConcurrent
    \/ \E r \in Reqs : McpAuthenticate(r)
    \/ \E r \in Reqs : McpDispatch(r)
    \/ \E r \in Reqs : McpLoad(r)
    \/ \E r \in Reqs : McpScope(r)
    \/ \E r \in Reqs : McpBridge(r)
    \/ \E r \in Reqs : RestGuard(r)
    \/ \E r \in Reqs : RestFind(r)
    \/ \E r \in Reqs : RestLoad(r)
    \/ \E r \in Reqs : RestBridge(r)
    \/ \E r \in Reqs : Complete(r)

SpecConcurrent == InitConcurrent /\ [][NextConcurrent]_vars

\* ---------------------------------------------------------------------
\* Specification: startup under every environment, then discovery requests
\* ---------------------------------------------------------------------
DiscoveryRequests ==
    {Request(DiscoveryEndpoint, c, "", None, NoId, None, None, <<>>, "", None) :
        c \in {NoCredentials, Bearer("ok", <<>>, <<>>)}}

InitStartup ==
    /\ env \in Environments
    /\ process = "starting"
    /\ OAUTH_ENABLED = FALSE
    /\ REQUIRED_SCOPES_STATIC = {}
    /\ OIDC_ISSUER = None
    /\ OIDC_AUDIENCE = None
    /\ fs = ConcurrentFileSystem
    /\ codebase_content \in StartupContents(ConcurrentFileSystem, <<>>)
    /\ req = [r \in Reqs |-> NoRequest]
    /\ pc = [r \in Reqs |-> "idle"]
    /\ claims = [r \in Reqs |-> NoClaims]
    /\ local_codebase = [r \in Reqs |-> ""]
    /\ project_name = [r \in Reqs |-> ""]
    /\ codebase_file = [r \in Reqs |-> <<>>]
    /\ trace = [r \in Reqs |-> <<>>]
    /\ resp = [r \in Reqs |-> NoResponse]
    /\ slot_writer = AtStartup

ReceiveDiscovery ==
    /\ \A s \in Reqs : pc[s] = "idle"
    /\ \E request \in DiscoveryRequests : Arrive(FreeSlot, request)

NextStartup ==
    \/ StartServer
    \/ ReceiveDiscovery
    \/ \E r \in Reqs : McpDiscovery(r)
    \/ \E r \in Reqs : Complete(r)

SpecStartup == InitStartup /\ [][NextStartup]_vars

\* ---------------------------------------------------------------------
\* Reading a handler's trace
\* ---------------------------------------------------------------------
Did(r, event) == event \in Range(trace[r])

\* event a occurs in the trace of r, and before every occurrence of b
Precedes(r, a, b) ==
    \E i \in 1..Len(trace[r]) :
        /\ trace[r][i] = a
        /\ \A j \in 1..Len(trace[r]) : trace[r][j] = b => i < j

ScopeDecided(r) == Did(r, "scope_ok") \/ Did(r, "scope_denied")

\* The request carries a bearer token the identity provider accepts
HasValidToken(request) ==
    /\ request.cred.present
    /\ request.cred.scheme = "Bearer"
    /\ request.cred.verdict = "ok"

\* The scopes the request's token grants
GrantedScopes(request) ==
    Range(request.cred.scope) \cup Range(request.cred.scopes)

\* The project a request is about
RequestProject(request) ==
    IF request.endpoint \in RestEndpoints THEN request.project
    ELSE IF request.codebase_file = <<>> THEN "default"
    ELSE IF Len(request.codebase_file) = 1 THEN ""
    ELSE request.codebase_file[Len(request.codebase_file) - 1]

\* ---------------------------------------------------------------------
\* C1
\* ---------------------------------------------------------------------
\* The rule as the claim states it: S subset of T, or the project scope in
\* T, or S empty with no project context.
ClaimedRule(S, T, p) ==
    \/ S \subseteq T
    \/ ProjectScope(p) \in T
    \/ (S = {} /\ p = "")

\* The rule the code applies: the static set counts only when it is
\* configured, the project scope only for a non-empty project name.
AppliedRule(S, T, p) ==
    \/ (S # {} /\ S \subseteq T)
    \/ (p # "" /\ ProjectScope(p) \in T)
    \/ (S = {} /\ p = "")

\* C1 as stated: under enforcement every scope decision, on the REST aliases
\* and on tools/call deepview, authorizes exactly when S is a subset of T, or
\* the project scope is in T, or S is empty with no project context, and a
\* denied request ends with 403.
C1_ScopeDecisionAsStated ==
    \A r \in Reqs :
        (OAUTH_ENABLED /\ ScopeDecided(r)) =>
            /\ Did(r, "scope_ok") <=>
                    ClaimedRule(REQUIRED_SCOPES_STATIC, GrantedScopes(req[r]),
                                RequestProject(req[r]))
            /\ Did(r, "scope_denied") => (pc[r] = "done" /\ resp[r].status = 403)

\* C1 amended: under enforcement every scope decision authorizes exactly when
\* S is non-empty and a subset of T, or the project name is non-empty and its
\* project scope is in T, or S is empty and the project name is empty; a
\* denied request ends with 403.
C1_ScopeDecision ==
    \A r \in Reqs :
        (OAUTH_ENABLED /\ ScopeDecided(r)) =>
            /\ HasValidToken(req[r])
            /\ Did(r, "scope_ok") <=>
                    AppliedRule(REQUIRED_SCOPES_STATIC, GrantedScopes(req[r]),
                                RequestProject(req[r]))
            /\ Did(r, "scope_denied") <=> ~Did(r, "scope_ok")
            /\ Did(r, "scope_denied") => (pc[r] = "done" /\ resp[r].status = 403)

\* A tools/call deepview request authorized by its project scope alone
C1_Witness ==
    \E r \in Reqs :
        /\ OAUTH_ENABLED
        /\ req[r].endpoint = PostEndpoint
        /\ Did(r, "scope_ok")
        /\ REQUIRED_SCOPES_STATIC # {}
        /\ ~(REQUIRED_SCOPES_STATIC \subseteq GrantedScopes(req[r]))

\* ---------------------------------------------------------------------
\* C2
\* ---------------------------------------------------------------------
AuthEvents == {"validated", "auth_failed", "scope_ok", "scope_denied"}

PastAuth(r) ==
    pc[r] \in {"mcp_dispatch", "mcp_load", "mcp_scope", "mcp_bridge",
               "rest_find", "rest_load", "rest_bridge"}

\* C2: with enforcement disabled no request, whatever credential it carries,
\* has its token validated or its scopes checked, every request that passes
\* the authorization stage does so as the anonymous subject, and no response
\* has status 401 or 403.
C2_DisabledAlwaysAuthorized ==
    ~OAUTH_ENABLED =>
        \A r \in Reqs :
            /\ Range(trace[r]) \cap AuthEvents = {}
            /\ resp[r].status \notin {401, 403}
            /\ PastAuth(r) => claims[r] = AnonymousClaims
            /\ (pc[r] = "done" /\ req[r].endpoint \in RestEndpoints) =>
                    claims[r] = AnonymousClaims

\* Enforcement off, an expired token, and the Query Bridge answered
C2_Witness ==
    \E r \in Reqs :
        /\ ~OAUTH_ENABLED
        /\ req[r].cred.verdict = "expired"
        /\ req[r].endpoint \in RestEndpoints
        /\ pc[r] = "done"
        /\ resp[r].status = 200
        /\ Did(r, "bridge")

\* ---------------------------------------------------------------------
\* C3
\* ---------------------------------------------------------------------
\* C3: under enforcement the Query Bridge is called for a request only after
\* the request's token was validated and, after that, the scope check for
\* the request's project passed; the same holds for a handler that is about
\* to call the Query Bridge.
C3_BridgeOnlyAfterScopeCheck ==
    OAUTH_ENABLED =>
        \A r \in Reqs :
            (Did(r, "bridge") \/ pc[r] \in {"mcp_bridge", "rest_bridge"}) =>
                /\ HasValidToken(req[r])
                /\ AppliedRule(REQUIRED_SCOPES_STATIC, GrantedScopes(req[r]),
                               RequestProject(req[r]))
                /\ Precedes(r, "validated", "scope_ok")
                /\ Precedes(r, "scope_ok", "bridge")
                /\ ~Did(r, "scope_denied")
                /\ ~Did(r, "auth_failed")

\* Under enforcement with static scopes, GET /codebase/{project_name} reached
\* the Query Bridge
C3_Witness ==
    \E r \in Reqs :
        /\ OAUTH_ENABLED
        /\ REQUIRED_SCOPES_STATIC # {}
        /\ req[r].endpoint = CodebaseEndpoint
        /\ Did(r, "bridge")
        /\ pc[r] = "done"

\* ---------------------------------------------------------------------
\* C4
\* ---------------------------------------------------------------------
\* C4: under enforcement a request without a valid bearer token (no
\* credential, another scheme, a token that fails validation) never has a
\* scope check, a corpus file read or a Query Bridge call done for it; it
\* ends with an error, and when its body could be read the only thing the
\* handler did for it is the failed authentication.
C4_AuthFailureFirst ==
    OAUTH_ENABLED =>
        \A r \in Reqs :
            (req[r].endpoint # "" /\ ~HasValidToken(req[r])) =>
                /\ Range(trace[r]) \cap
                        {"validated", "scope_ok", "scope_denied", "read", "bridge"} = {}
                /\ ~PastAuth(r)
                /\ pc[r] = "done" =>
                        /\ resp[r].status >= 400
                        /\ req[r].body # "invalid" => trace[r] = <<"auth_failed">>

\* A tools/call deepview request with an expired token was turned away
C4_Witness ==
    \E r \in Reqs :
        /\ OAUTH_ENABLED
        /\ req[r].method = "tools/call"
        /\ req[r].tool = "deepview"
        /\ req[r].question = "purpose?"
        /\ req[r].cred.verdict = "expired"
        /\ pc[r] = "done"
        /\ Did(r, "auth_failed")

\* ---------------------------------------------------------------------
\* C5
\* ---------------------------------------------------------------------
\* C5: under enforcement every request that failed authentication is
\* answered with status 401, on the REST aliases and on the protocol endpoint.
C5_AuthFailureIs401 ==
    OAUTH_ENABLED =>
        \A r \in Reqs :
            (pc[r] = "done" /\ Did(r, "auth_failed")) => resp[r].status = 401

\* ---------------------------------------------------------------------
\* C6
\* ---------------------------------------------------------------------
\* The response echoes the request's id: the same value when it has the
\* key, and no key only when the request had none
EchoesId(request, response) ==
    IF response.hasId THEN response.id = request.id ELSE request.id = NoId

\* C6: every response to a POST whose body is a JSON object carries
\* "jsonrpc" and echoes the request's id, whatever the method and outcome.
C6_EveryResponseEchoesId ==
    \A r \in Reqs :
        (pc[r] = "done" /\ req[r].endpoint = PostEndpoint /\ req[r].body = "object") =>
            /\ resp[r].jsonrpc
            /\ EchoesId(req[r], resp[r])

\* ---------------------------------------------------------------------
\* C7
\* ---------------------------------------------------------------------
IsInitialize(r) ==
    /\ req[r].endpoint = PostEndpoint
    /\ req[r].body = "object"
    /\ req[r].method = "initialize"

\* C7 as stated: initialize is answered with the result object for every
\* configuration and every credential state.
C7_InitializeAlwaysSucceeds ==
    \A r \in Reqs :
        (pc[r] = "done" /\ IsInitialize(r)) =>
            resp[r] = RpcResult(req[r].id, "initialize")

\* C7 amended: initialize is answered with the result object (status 200, the
\* request's id) whenever enforcement is off or the request carries a valid
\* bearer token; under enforcement without a valid token it is refused
\* before dispatch, with an error.
C7_InitializeSucceedsWhenAuthenticated ==
    \A r \in Reqs :
        (pc[r] = "done" /\ IsInitialize(r)) =>
            IF ~OAUTH_ENABLED \/ HasValidToken(req[r])
            THEN /\ resp[r].status = 200
                 /\ resp[r].kind = "initialize"
                 /\ resp[r].jsonrpc
                 /\ resp[r].hasId /\ resp[r].id = req[r].id
                 /\ resp[r].code = 0
            ELSE /\ resp[r].status >= 400
                 /\ resp[r].kind # "initialize"
                 /\ trace[r] = <<"auth_failed">>

\* initialize, sent with an id and a valid token, answered under enforcement
C7_Witness ==
    \E r \in Reqs :
        /\ pc[r] = "done"
        /\ IsInitialize(r)
        /\ resp[r].kind = "initialize"
        /\ req[r].id # NoId
        /\ OAUTH_ENABLED

\* ---------------------------------------------------------------------
\* C8
\* ---------------------------------------------------------------------
IsUnknownMethod(r) ==
    /\ req[r].endpoint = PostEndpoint
    /\ req[r].body = "object"
    /\ req[r].method \notin KnownMethods

IsMethodNotFound(request, response) ==
    /\ response.kind = "rpc_error"
    /\ response.code = -32601
    /\ response.jsonrpc
    /\ response.hasId /\ response.id = request.id

\* C8 as stated: a POST with an unknown method is answered with the JSON-RPC
\* error -32601 carrying the request's id, with no corpus read and no Query
\* Bridge call.
C8_UnknownMethodAsStated ==
    \A r \in Reqs :
        IsUnknownMethod(r) =>
            /\ ~Did(r, "read") /\ ~Did(r, "bridge")
            /\ pc[r] = "done" => IsMethodNotFound(req[r], resp[r])

\* C8 amended: a POST with an unknown method never reads a corpus file nor
\* calls the Query Bridge, and whenever enforcement is off or the request
\* carries a valid bearer token it is answered with the JSON-RPC error
\* -32601 carrying the request's id.
C8_UnknownMethod ==
    \A r \in Reqs :
        IsUnknownMethod(r) =>
            /\ ~Did(r, "read") /\ ~Did(r, "bridge")
            /\ local_codebase[r] = ""
            /\ (pc[r] = "done" /\ (~OAUTH_ENABLED \/ HasValidToken(req[r]))) =>
                    IsMethodNotFound(req[r], resp[r])

\* tools/frobnicate with an id was answered
C8_Witness ==
    \E r \in Reqs :
        /\ IsUnknownMethod(r)
        /\ req[r].id # NoId
        /\ pc[r] = "done"
        /\ resp[r].code = -32601

\* ---------------------------------------------------------------------
\* C9
\* ---------------------------------------------------------------------
\* The search order as the claim states it
ClaimedDirs(project) ==
    << <<"/", "app", "codebase", project>>,
       <<".", "codebase", project>>,
       <<"codebase", project>> >>

ClaimedNames(hint) ==
    IF hint \in {None, ""}
    THEN <<"codebase.xml", "codebase.txt", "codebase.md", "codebase.json">>
    ELSE <<hint, "codebase.xml", "codebase.txt", "codebase.md", "codebase.json">>

ClaimedPath(project, hint, d, n) ==
    ClaimedDirs(project)[d] \o <<ClaimedNames(hint)[n]>>

CandidateExists(project, hint, d, n) ==
    PathExists(fs, ClaimedPath(project, hint, d, n))

\* path is the first existing candidate in directory-major order
IsFirstCandidate(path, project, hint) ==
    \E d \in 1..3 : \E n \in 1..Len(ClaimedNames(hint)) :
        /\ path = ClaimedPath(project, hint, d, n)
        /\ CandidateExists(project, hint, d, n)
        /\ \A d2 \in 1..3 : \A n2 \in 1..Len(ClaimedNames(hint)) :
              (d2 < d \/ (d2 = d /\ n2 < n)) =>
                    ~CandidateExists(project, hint, d2, n2)

NoCandidate(project, hint) ==
    \A d \in 1..3 : \A n \in 1..Len(ClaimedNames(hint)) :
        ~CandidateExists(project, hint, d, n)

\* The REST handler of r has run find_codebase_file
Resolved(r) ==
    /\ req[r].endpoint \in RestEndpoints
    /\ \/ pc[r] \in {"rest_load", "rest_bridge"}
       \/ (pc[r] = "done" /\ resp[r].status \notin {401, 403})

\* C9: find_codebase_file returns the first existing candidate in
\* directory-major order (/app/codebase/<project>, ./codebase/<project>,
\* codebase/<project>; within each the hint, if supplied, then codebase.xml,
\* codebase.txt, codebase.md, codebase.json), and it fails, the request ending
\* with 404 and no file resolved, exactly when no candidate exists.
C9_FirstCandidateInOrder ==
    \A r \in Reqs :
        Resolved(r) =>
            IF NoCandidate(req[r].project, req[r].filename)
            THEN pc[r] = "done" /\ resp[r].status = 404 /\ codebase_file[r] = <<>>
            ELSE IsFirstCandidate(codebase_file[r], req[r].project, req[r].filename)

\* The hint exists in ./codebase/acme only, a default name exists in
\* /app/codebase/acme, and the resolver returned the latter
C9_Witness ==
    \E r \in Reqs :
        /\ Resolved(r)
        /\ req[r].filename = "notes.md"
        /\ PathExists(fs, <<".", "codebase", "acme", "notes.md">>)
        /\ ~PathExists(fs, <<"/", "app", "codebase", "acme", "notes.md">>)
        /\ ~PathExists(fs, <<"/", "app", "codebase", "acme", "codebase.xml">>)
        /\ codebase_file[r] = <<"/", "app", "codebase", "acme", "codebase.txt">>

\* ---------------------------------------------------------------------
\* C10
\* ---------------------------------------------------------------------
\* No corpus file exists at any candidate path of the request
NothingToLoad(request) ==
    IF request.endpoint \in RestEndpoints
    THEN NoCandidate(request.project, request.filename)
    ELSE /\ request.method = "tools/call"
         /\ request.tool = "deepview"
         /\ request.question \notin {None, ""}
         /\ request.codebase_file # <<>>
         /\ \A i \in 1..4 : ~PathExists(fs, possible_paths(request.codebase_file)[i])

\* C10: a request that was not turned away by authentication or by the scope
\* check, and for which no corpus file exists at any candidate path, is
\* answered with status 404, on the REST aliases and on tools/call deepview.
C10_NotFoundIs404 ==
    \A r \in Reqs :
        (/\ pc[r] = "done"
         /\ req[r].body # "invalid"
         /\ ~Did(r, "auth_failed")
         /\ ~Did(r, "scope_denied")
         /\ NothingToLoad(req[r])) => resp[r].status = 404

\* ---------------------------------------------------------------------
\* C11: what an unexpected failure puts into the response
\* ---------------------------------------------------------------------
\* str(e) of an exception: the values the data of a response takes when the
\* handler copies the failure's own text into it
ExceptionTexts == {"exception text", "401: detail"}

CarriesDetail(response) == response.data \in ExceptionTexts

\* the Query Bridge raised, or reading the request body raised
UnexpectedFailure(r) ==
    /\ req[r].endpoint = PostEndpoint
    /\ pc[r] = "done"
    /\ Did(r, "bridge_raised") \/ req[r].body # "object"

\* C11: a POST request whose Query Bridge call or whose dispatch raised is
\* answered with a JSON-RPC error object of code -32603 that carries a
\* generic message only, never the text of the failure.
C11_FailureDetailNotExposed ==
    \A r \in Reqs :
        UnexpectedFailure(r) =>
            /\ resp[r].kind = "rpc_error"
            /\ resp[r].code = -32603
            /\ ~CarriesDetail(resp[r])

\* ---------------------------------------------------------------------
\* C12
\* ---------------------------------------------------------------------
LacksQuestion(r) ==
    /\ req[r].endpoint = PostEndpoint
    /\ req[r].body = "object"
    /\ req[r].method = "tools/call"
    /\ req[r].tool = "deepview"
    /\ req[r].question \in {None, ""}

IsQuestionRequired(response) ==
    /\ response.status = 400
    /\ response.kind = "plain_error"
    /\ response.data = "Question is required"

\* C12 as stated: a tools/call deepview request without a question, or with
\* an empty one, is answered with the input-validation error (status 400),
\* with no corpus read, no scope check and no Query Bridge call before it,
\* whatever codebase_file and credentials it carries.
C12_QuestionRequiredAsStated ==
    \A r \in Reqs :
        LacksQuestion(r) =>
            /\ ~Did(r, "read") /\ ~ScopeDecided(r) /\ ~Did(r, "bridge")
            /\ pc[r] = "done" => IsQuestionRequired(resp[r])

\* C12 amended: a tools/call deepview request without a question, or with an
\* empty one, never reads a corpus file, never reaches a scope check and
\* never calls the Query Bridge, whatever codebase_file and token scopes it
\* carries; whenever enforcement is off or the request carries a valid
\* bearer token it is answered with the input-validation error (status 400).
C12_QuestionRequired ==
    \A r \in Reqs :
        LacksQuestion(r) =>
            /\ ~Did(r, "read") /\ ~ScopeDecided(r) /\ ~Did(r, "bridge")
            /\ local_codebase[r] = ""
            /\ pc[r] \notin {"mcp_load", "mcp_scope", "mcp_bridge"}
            /\ (pc[r] = "done" /\ (~OAUTH_ENABLED \/ HasValidToken(req[r]))) =>
                    IsQuestionRequired(resp[r])

\* Under enforcement, an empty question naming an existing corpus file, sent
\* with a valid token that lacks every required scope, was answered 400
C12_Witness ==
    \E r \in Reqs :
        /\ pc[r] = "done"
        /\ LacksQuestion(r)
        /\ OAUTH_ENABLED
        /\ HasValidToken(req[r])
        /\ req[r].question = ""
        /\ req[r].codebase_file = <<"acme", "codebase.txt">>
        /\ fs[AcmeCorpus] = "acme corpus"
        /\ ~AppliedRule(REQUIRED_SCOPES_STATIC, GrantedScopes(req[r]), "acme")
        /\ IsQuestionRequired(resp[r])

\* ---------------------------------------------------------------------
\* C13
\* ---------------------------------------------------------------------
\* C13: no step taken on behalf of a request, on the REST aliases or on the
\* POST endpoint, changes codebase_content: the process-wide corpus keeps the
\* value it was given at startup.
C13_RequestsLeaveGlobalAlone == [][codebase_content' = codebase_content]_vars

\* A tools/call deepview request loaded a corpus file whose text is not the
\* process-wide corpus, and was answered
C13_Witness ==
    \E r \in Reqs :
        /\ req[r].endpoint = PostEndpoint
        /\ pc[r] = "done"
        /\ Did(r, "read")
        /\ local_codebase[r] # ""
        /\ local_codebase[r] # codebase_content
        /\ codebase_content # ""

\* ---------------------------------------------------------------------
\* C14
\* ---------------------------------------------------------------------
\* The text the process loaded at startup under SpecConcurrent
StartupText == CHOOSE t \in StartupContents(ConcurrentFileSystem, <<>>) : TRUE

\* A tools/call deepview request that took the default corpus
ReadDefault(r) ==
    /\ req[r].endpoint = PostEndpoint
    /\ req[r].codebase_file = <<>>
    /\ project_name[r] = "default"

\* C14 as stated: serving a tools/call deepview request that supplies no
\* explicit codebase_file overwrites the default-corpus slot, so that the
\* slot then holds what that request wrote and no longer what startup wrote.
C14_SlotOverwrittenAsStated ==
    [][\A r \in Reqs :
        (/\ pc[r] = "mcp_load"
         /\ pc'[r] # "mcp_load"
         /\ req[r].codebase_file = <<>>) => slot_writer' = r]_vars

\* C14 amended: no request writes the default-corpus slot; with requests in
\* flight together, the slot always holds the text loaded at startup and a
\* tools/call deepview request reading the default corpus obtains that text,
\* never text written by another request.
C14_DefaultCorpusIsStartupValue ==
    /\ slot_writer = AtStartup
    /\ codebase_content = StartupText
    /\ \A r \in Reqs : ReadDefault(r) => local_codebase[r] = StartupText

\* Two requests in flight: one took the default corpus, the other loaded a
\* corpus file with a different text
C14_Witness ==
    \E r, s \in Reqs :
        /\ r # s
        /\ ReadDefault(r) /\ pc[r] = "mcp_bridge"
        /\ pc[s] \notin {"idle", "done"}
        /\ Did(s, "read")
        /\ local_codebase[s] \notin {"", local_codebase[r]}

\* ---------------------------------------------------------------------
\* C18
\* ---------------------------------------------------------------------
\* A codebase_file that is a bare file name
NoDirectoryPart(request) == Len(request.codebase_file) = 1

\* C18: under enforcement, the scope check of tools/call deepview is made for
\* the last component of the directory part of codebase_file, for "default"
\* when no codebase_file is supplied, and for the empty project name when
\* codebase_file has no directory part; the empty name is no project
\* context, so with no static scopes configured every validated token is
\* authorized for it.
C18_ProjectNameOfScopeCheck ==
    \A r \in Reqs :
        (OAUTH_ENABLED /\ req[r].endpoint = PostEndpoint /\ ScopeDecided(r)) =>
            /\ project_name[r] = RequestProject(req[r])
            /\ req[r].codebase_file = <<>> => project_name[r] = "default"
            /\ NoDirectoryPart(req[r]) => project_name[r] = ""
            /\ (NoDirectoryPart(req[r]) /\ REQUIRED_SCOPES_STATIC = {}) =>
                    Did(r, "scope_ok")

\* A bare file name, no static scopes, a validated token granting nothing:
\* authorized
C18_Witness ==
    \E r \in Reqs :
        /\ OAUTH_ENABLED
        /\ req[r].endpoint = PostEndpoint
        /\ NoDirectoryPart(req[r])
        /\ REQUIRED_SCOPES_STATIC = {}
        /\ HasValidToken(req[r])
        /\ GrantedScopes(req[r]) = {}
        /\ Did(r, "scope_ok")
        /\ pc[r] = "mcp_bridge"

\* ---------------------------------------------------------------------
\* C19
\* ---------------------------------------------------------------------
\* codebase_file resolves to an existing, non-empty file: the first of the
\* loader's four candidate paths that exists has text
LoadsText(request) ==
    \E i \in 1..4 :
        /\ PathExists(fs, possible_paths(request.codebase_file)[i])
        /\ ReadFile(fs, possible_paths(request.codebase_file)[i]) # ""
        /\ \A j \in 1..(i - 1) :
              ~PathExists(fs, possible_paths(request.codebase_file)[j])

\* A request carrying a validated token that does not authorize its project
LacksScope(request) ==
    /\ HasValidToken(request)
    /\ ~AppliedRule(REQUIRED_SCOPES_STATIC, GrantedScopes(request),
                    RequestProject(request))

\* A tools/call deepview request with a question
AsksDeepview(request) ==
    /\ request.endpoint = PostEndpoint
    /\ request.body = "object"
    /\ request.method = "tools/call"
    /\ request.tool = "deepview"
    /\ request.question \notin {None, ""}

\* C19: under enforcement, tools/call deepview loads the corpus before it
\* checks the scope. A validated token lacking the scope is answered 403
\* only when its codebase_file resolves to an existing non-empty file, or,
\* with no codebase_file, the default corpus is non-empty; when the file
\* cannot be loaded it is answered -32603 with status 500, and when the
\* default corpus is empty 404, no scope check having been made. On the REST
\* aliases the scope check comes first: a 403 is sent with no file access.
C19_LoadBeforeScopeCheck ==
    \A r \in Reqs :
        /\ (OAUTH_ENABLED /\ AsksDeepview(req[r]) /\ Did(r, "scope_denied")) =>
                IF req[r].codebase_file # <<>>
                THEN Precedes(r, "read", "scope_denied") /\ LoadsText(req[r])
                ELSE local_codebase[r] # "" /\ codebase_content # ""
        /\ (OAUTH_ENABLED /\ AsksDeepview(req[r]) /\ LacksScope(req[r])
                /\ pc[r] = "done") =>
                IF req[r].codebase_file # <<>>
                THEN IF LoadsText(req[r])
                     THEN resp[r].status = 403
                     ELSE /\ resp[r].status = 500
                          /\ resp[r].kind = "rpc_error" /\ resp[r].code = -32603
                          /\ ~ScopeDecided(r)
                ELSE IF codebase_content # ""
                     THEN resp[r].status = 403
                     ELSE resp[r].status = 404 /\ ~ScopeDecided(r)
        /\ (OAUTH_ENABLED /\ req[r].endpoint \in RestEndpoints
                /\ LacksScope(req[r])) =>
                /\ ~Did(r, "read")
                /\ codebase_file[r] = <<>> /\ local_codebase[r] = ""
                /\ pc[r] = "done" => resp[r].status = 403

\* A validated token without the scope of project ghost asked about a file
\* that does not exist, and was answered -32603 with status 500
C19_Witness ==
    \E r \in Reqs :
        /\ OAUTH_ENABLED
        /\ AsksDeepview(req[r])
        /\ LacksScope(req[r])
        /\ req[r].codebase_file = <<"ghost", "codebase.txt">>
        /\ pc[r] = "done"
        /\ resp[r].status = 500 /\ resp[r].code = -32603

\* ---------------------------------------------------------------------
\* C17
\* ---------------------------------------------------------------------
IsListCall(r) ==
    /\ req[r].endpoint = PostEndpoint
    /\ req[r].body = "object"
    /\ req[r].method = "tools/call"
    /\ req[r].tool = "list_codebase_files"

\* The corpus root: /app/codebase when it exists, else the relative codebase
CorpusRoot ==
    IF fs[AppCodebase] # Absent \/ \E p \in {RootCorpus, AcmeXml, AcmeLogo, DeepNotes} :
                                        fs[p] # Absent
    THEN AppCodebase ELSE BareCodebase

\* The files of the layout that end in .xml, .txt, .md or .json, with their
\* root and their path relative to it
ListedAs ==
    [p \in {RootCorpus, AcmeXml, DeepNotes, AcmeNotes, BareJson} |->
        CASE p = RootCorpus -> [root |-> AppCodebase, rel |-> <<"codebase.txt">>]
          [] p = AcmeXml -> [root |-> AppCodebase, rel |-> <<"acme", "codebase.xml">>]
          [] p = DeepNotes -> [root |-> AppCodebase, rel |-> <<"acme", "docs", "notes.md">>]
          [] p = AcmeNotes -> [root |-> BareCodebase, rel |-> <<"acme", "notes.md">>]
          [] OTHER -> [root |-> BareCodebase, rel |-> <<"codebase.json">>]]

ExpectedListing ==
    {ListedAs[p].rel : p \in {q \in DOMAIN ListedAs :
                                fs[q] # Absent /\ ListedAs[q].root = CorpusRoot}}

\* The answer the claim describes, given the first line the text starts with
IsListing(request, response) ==
    /\ response.status = 200
    /\ response.jsonrpc /\ response.hasId /\ response.id = request.id
    /\ response.files = ExpectedListing
    /\ IF ExpectedListing # {}
       THEN response.kind = "file_list"
       ELSE response.kind = "no_files" /\ response.data = "No codebase files found"

\* C17 as stated: tools/call list_codebase_files returns one text block that
\* lists exactly the files under the corpus root, at any depth, that end in
\* .xml, .txt, .md or .json, as root-relative paths, and that is exactly
\* "No codebase files found" when the root is missing or holds no such file.
C17_FileListingAsStated ==
    \A r \in Reqs :
        (IsListCall(r) /\ pc[r] = "done") => IsListing(req[r], resp[r])

\* C17 amended: whenever enforcement is off or the request carries a valid
\* bearer token, tools/call list_codebase_files returns one text block: the
\* line "Available codebase files:" followed by exactly the files under the
\* corpus root (/app/codebase when it exists, else codebase), at any depth,
\* that end in .xml, .txt, .md or .json, as root-relative paths; or exactly
\* "No codebase files found" when the root is missing or holds no such file.
\* No token scope is needed, and no corpus file is read.
C17_FileListing ==
    \A r \in Reqs :
        (IsListCall(r) /\ pc[r] = "done") =>
            /\ ~Did(r, "read") /\ ~ScopeDecided(r)
            /\ IF ~OAUTH_ENABLED \/ HasValidToken(req[r])
               THEN /\ IsListing(req[r], resp[r])
                    /\ ExpectedListing # {} =>
                            resp[r].data = "Available codebase files:"
               ELSE resp[r].status >= 400 /\ resp[r].files = {}

\* /app/codebase holds a recognised file two directories down and a file
\* with another extension, codebase holds recognised files too: only the
\* former root's recognised files were listed
C17_Witness ==
    \E r \in Reqs :
        /\ IsListCall(r) /\ pc[r] = "done"
        /\ fs[DeepNotes] # Absent /\ fs[AcmeLogo] # Absent
        /\ fs[AcmeNotes] # Absent /\ fs[RootCorpus] = Absent
        /\ fs[AcmeXml] = Absent
        /\ resp[r].kind = "file_list"
        /\ resp[r].files = {<<"acme", "docs", "notes.md">>}

\* ---------------------------------------------------------------------
\* C15
\* ---------------------------------------------------------------------
\* OAUTH_ENABLED is set to true, in any letter case
EnforcementRequested(e) == e.OAUTH_ENABLED \in {"true", "True"}

Unset(x) == x \in {None, ""}

\* No issuer, no audience, or no JWKS URL and no way to discover one
BrokenAuthorization(e) ==
    /\ EnforcementRequested(e)
    /\ \/ Unset(e.OIDC_ISSUER)
       \/ Unset(e.OIDC_AUDIENCE)
       \/ (Unset(e.OIDC_JWKS_URL) /\ e.discovery \in {"no_jwks_uri", "get_failed"})

\* C15: when enforcement is enabled and the issuer or the audience is not
\* configured, or no JWKS URL is configured and the discovery document cannot
\* be fetched or lacks jwks_uri, the process never serves: create_http_server
\* raises, main() exits with status 1, and no request is ever handled.
C15_NeverServesBrokenAuthorization ==
    BrokenAuthorization(env) =>
        /\ process \in {"starting", "exit_1"}
        /\ ~OAUTH_ENABLED
        /\ \A r \in Reqs : pc[r] = "idle" /\ resp[r] = NoResponse

\* Enforcement on, issuer and audience set, no JWKS URL, and a discovery
\* document without jwks_uri: the process has exited with status 1
C15_Witness ==
    /\ process = "exit_1"
    /\ env.GEMINI_API_KEY = "key"
    /\ env.OAUTH_ENABLED = "True"
    /\ env.OIDC_ISSUER = Issuer
    /\ env.OIDC_AUDIENCE = Audience
    /\ env.OIDC_JWKS_URL = None
    /\ env.discovery = "no_jwks_uri"

\* ---------------------------------------------------------------------
\* C16
\* ---------------------------------------------------------------------
\* C16: the discovery document served at /.well-known/mcp.json carries an
\* authorization object (type oauth2, issuer, the two endpoints, audience,
\* static scopes) exactly when enforcement is enabled; when it is disabled
\* the document has none, whatever issuer is configured.
C16_AuthorizationOnlyUnderEnforcement ==
    \A r \in Reqs :
        (req[r].endpoint = DiscoveryEndpoint /\ pc[r] = "done") =>
            IF OAUTH_ENABLED
            THEN /\ resp[r].authorization.present
                 /\ resp[r].authorization.type = "oauth2"
                 /\ resp[r].authorization.audience = env.OIDC_AUDIENCE
                 /\ resp[r].authorization.scopes = REQUIRED_SCOPES_STATIC
            ELSE ~resp[r].authorization.present

====
